---- MODULE Spec2Model ----
(***************************************************************************)
(* Model of the Bio-Rad documentation downloader: link extraction from     *)
(* rendered markup, filename derivation, the idempotent download step and  *)
(* the worker pool that drains the URL channel.                            *)
(*                                                                         *)
(* The repository holds two versions of the program: src/main.go and       *)
(* src/unnamed/part_000 (the goquery based one).  They share the worker    *)
(* pool and differ in extractLinksFromHTML, createFileNameFromURL and the  *)
(* existence test of downloadPDFFile.  The variable `variant` says which   *)
(* version runs.                                                           *)
(*                                                                         *)
(* Strings are sequences of tokens.  A token is a maximal run of letters   *)
(* and digits, or one punctuation character; a word is cut further where   *)
(* the code tests for a part of it ("https" is <<"http", "s">>), so every  *)
(* literal the code looks for is a whole number of tokens.                 *)
(***************************************************************************)
EXTENDS Integers, Sequences, FiniteSets, TLC

(* ------------------------------ bounds -------------------------------- *)
\* longest task list handed to the pool
MaxTasks == 2
\* number of workers of the pool (numberOfWorkers is 20 in the source)
NumWorkers == 2
\* number of chunks io.Copy writes for the longest response body
ChunkCount == 2
\* longest markup, in elements, handed to the extractor
MaxElems == 2

(* ------------------------- strings (package strings) ------------------ *)
HasPrefix(s, p) == Len(s) >= Len(p) /\ SubSeq(s, 1, Len(p)) = p

HasSuffix(s, p) == Len(s) >= Len(p) /\ SubSeq(s, Len(s) - Len(p) + 1, Len(s)) = p

MatchAt(s, p, i) == i + Len(p) - 1 <= Len(s) /\ SubSeq(s, i, i + Len(p) - 1) = p

\* the places where p occurs in s
Occurrences(s, p) == {i \in 1..Len(s) : MatchAt(s, p, i)}

FirstOf(hits) == IF hits = {} THEN 0 ELSE CHOOSE i \in hits : \A j \in hits : i <= j

LastOf(hits) == IF hits = {} THEN 0 ELSE CHOOSE i \in hits : \A j \in hits : i >= j

\* strings.Index, 1-based; 0 when p does not occur
Index(s, p) == FirstOf(Occurrences(s, p))

\* strings.LastIndex, 1-based; 0 when p does not occur
LastIndex(s, p) == LastOf(Occurrences(s, p))

Contains(s, p) == Index(s, p) # 0

TrimPrefix(s, p) == IF HasPrefix(s, p) THEN SubSeq(s, Len(p) + 1, Len(s)) ELSE s

TrimSuffix(s, p) == IF HasSuffix(s, p) THEN SubSeq(s, 1, Len(s) - Len(p)) ELSE s

\* s before place i, all of s when i is 0; s from n places after i on,
\* nothing when i is 0
Before(s, i) == IF i = 0 THEN s ELSE SubSeq(s, 1, i - 1)

After(s, i, n) == IF i = 0 THEN <<>> ELSE SubSeq(s, i + n, Len(s))

\* strings.Split with a non-empty separator: n separators give n+1 pieces
RECURSIVE Split(_, _)
SplitAt(s, sep, i) ==
  IF i = 0 THEN <<s>> ELSE <<SubSeq(s, 1, i - 1)>> \o Split(After(s, i, Len(sep)), sep)

Split(s, sep) == SplitAt(s, sep, Index(s, sep))

\* strings.Join
RECURSIVE Join(_, _)
Join(parts, sep) ==
  IF Len(parts) = 0 THEN <<>>
  ELSE IF Len(parts) = 1 THEN parts[1]
  ELSE parts[1] \o sep \o Join(Tail(parts), sep)

\* strings.Trim(s, "-")
RECURSIVE TrimHyphens(_)
TrimHyphens(s) ==
  IF Len(s) = 0 THEN s
  ELSE IF s[1] = "-" THEN TrimHyphens(Tail(s))
  ELSE IF s[Len(s)] = "-" THEN TrimHyphens(SubSeq(s, 1, Len(s) - 1))
  ELSE s

\* the punctuation characters of the alphabet; every other token is a word
\* of letters and digits
Punct == {"-", "_", ".", "/", "?", "=", "~", "&", ":", "+", " ", "CTL"}

IsAlnum(t) == t \notin Punct

\* strings.ToLower on one token
ToLowerTok(t) ==
  CASE t = "X" -> "x"
    [] t = "TS" -> "ts"
    [] t = "PDF" -> "pdf"
    [] t = "MTR" -> "mtr"
    [] t = "EN" -> "en"
    [] t = "HRLS00001" -> "hrls00001"
    [] t = "DirectDocumentDownloader" -> "directdocumentdownloader"
    [] t = "Document" -> "document"
    [] t = "AGHS" -> "aghs"
    [] t = "Staph" -> "staph"
    [] t = "Broth" -> "broth"
    [] OTHER -> t

ToLower(s) == [i \in 1..Len(s) |-> ToLowerTok(s[i])]

\* regexp [^A-Za-z0-9]+ with ReplaceAllString(seg, "-"): every maximal run
\* of punctuation becomes one hyphen (the last character of a run is
\* replaced, the ones before it go)
sanitize(s) ==
  LET marked == [i \in 1..Len(s) |->
                   IF IsAlnum(s[i]) THEN s[i]
                   ELSE IF i < Len(s) /\ ~IsAlnum(s[i + 1]) THEN "" ELSE "-"]
  IN  SelectSeq(marked, LAMBDA t : t # "")

(* ------------------------------ net/url -------------------------------- *)
\* the tokens a URL scheme may hold besides letters and digits
SchemeTok(t) == IsAlnum(t) \/ t \in {"+", "-", "."}

\* getScheme: c is the first ":"; it ends a scheme when only scheme
\* characters precede it
SchemeEndAt(u, c) ==
  IF c > 1 /\ IsAlnum(u[1]) /\ \A i \in 1..(c - 1) : SchemeTok(u[i]) THEN c ELSE 0

\* the index of the ":" that ends the scheme, 0 when there is none
SchemeEnd(u) == SchemeEndAt(u, Index(u, <<":">>))

\* the URL up to its first "?"
BeforeQuery(u) == Before(u, Index(u, <<"?">>))

\* URL.RawQuery
RawQuery(u) == After(u, Index(u, <<"?">>), 1)

\* what follows the scheme of b, a URL without its query
AfterSchemeOf(b) == SubSeq(b, SchemeEnd(b) + 1, Len(b))

AfterScheme(u) == AfterSchemeOf(BeforeQuery(u))

\* a relative path whose first segment holds a colon
ColonInFirstSegment(b) ==
  SchemeEnd(b) = 0 /\ Contains(Before(b, Index(b, <<"/">>)), <<":">>)

\* url.Parse returns an error: a control character, a missing scheme before
\* ":" or a colon in the first segment of a relative path
ParseFails(u) ==
  \/ \E i \in 1..Len(u) : u[i] = "CTL"
  \/ Len(u) > 0 /\ u[1] = ":"
  \/ ColonInFirstSegment(BeforeQuery(u))

\* s from place i on, nothing when i is 0
FromIndex(s, i) == IF i = 0 THEN <<>> ELSE SubSeq(s, i, Len(s))

\* the path that follows the authority ap
FromFirstSlash(ap) == FromIndex(ap, Index(ap, <<"/">>))

PathOfRest(rest, hasScheme) ==
  IF HasPrefix(rest, <<"/", "/">>) THEN FromFirstSlash(SubSeq(rest, 3, Len(rest)))
  ELSE IF hasScheme /\ ~HasPrefix(rest, <<"/">>) THEN <<>>
  ELSE rest

\* URL.Path: empty for an opaque URL, what follows the authority after "//"
UrlPath(u) == PathOfRest(AfterScheme(u), SchemeEnd(BeforeQuery(u)) # 0)

\* url.QueryUnescape on the alphabet of the model: "+" decodes to a space
QueryUnescape(s) == [i \in 1..Len(s) |-> IF s[i] = "+" THEN " " ELSE s[i]]

\* the key and the value of one "key=value" pair
KeyOf(pair) == QueryUnescape(Before(pair, Index(pair, <<"=">>)))

ValOf(pair) == QueryUnescape(After(pair, Index(pair, <<"=">>), 1))

ValueAt(pairs, i) == IF i = 0 THEN <<>> ELSE ValOf(pairs[i])

FirstValue(pairs, key) ==
  ValueAt(pairs, FirstOf({i \in 1..Len(pairs) : pairs[i] # <<>> /\ KeyOf(pairs[i]) = key}))

\* URL.Query().Get(key): the first value of key among the "&" separated
\* pairs, "" when the key is absent
QueryGet(u, key) == FirstValue(Split(RawQuery(u), <<"&">>), key)

(* -------------------------------- path --------------------------------- *)
RECURSIVE StripSlashes(_)
StripSlashes(p) ==
  IF Len(p) > 0 /\ p[Len(p)] = "/" THEN StripSlashes(SubSeq(p, 1, Len(p) - 1)) ELSE p

BaseOfStripped(q) ==
  IF q = <<>> THEN <<"/">> ELSE SubSeq(q, LastIndex(q, <<"/">>) + 1, Len(q))

\* path.Base
PathBase(p) == IF p = <<>> THEN <<".">> ELSE BaseOfStripped(StripSlashes(p))

(* ------------------------ createFileNameFromURL ------------------------ *)
DotPdf == <<".", "pdf">>

InvalidUrlPdf == <<"invalid", "-", "url", ".", "pdf">>

\* the two versions of the program
Variants == {"main.go", "part_000"}

\* a cleaned segment is kept unless it is empty
keepSegment(seg) == IF seg # <<>> THEN <<seg>> ELSE <<>>

\* step 3 of part_000: clean every segment and drop the empty ones
RECURSIVE cleanSegments(_)
cleanSegments(parts) ==
  IF Len(parts) = 0 THEN <<>>
  ELSE keepSegment(ToLower(TrimHyphens(sanitize(parts[1])))) \o cleanSegments(Tail(parts))

\* step 2 of both versions: the base of the path, without ".pdf"
baseName(rawURL) == TrimSuffix(PathBase(UrlPath(rawURL)), DotPdf)

\* the segments, or the base name when there are none
partsOrBase(parts, rawURL) == IF Len(parts) = 0 THEN <<baseName(rawURL)>> ELSE parts

\* step 1 of both versions: the parameter or the query split on "~~"
splitTildes(q) == IF q # <<>> THEN Split(q, <<"~", "~">>) ELSE <<>>

\* step 4 of both versions: ".pdf" is appended unless the name ends in it
ensurePdf(filename) == IF ~HasSuffix(filename, DotPdf) THEN filename \o DotPdf ELSE filename

\* part_000: the prd parameter split on "~~", else the base of the path
createFileNameFromURL_goquery(rawURL) ==
  IF ParseFails(rawURL) THEN InvalidUrlPdf
  ELSE ensurePdf(Join(cleanSegments(
         partsOrBase(splitTildes(QueryGet(rawURL, <<"prd">>)), rawURL)), <<"-">>))

\* main.go: "prd=" is cut from the head of every piece of the raw query
stripPrd(split) == [i \in 1..Len(split) |-> TrimPrefix(split[i], <<"prd", "=">>)]

lowerAll(parts) == [i \in 1..Len(parts) |-> ToLower(parts[i])]

\* main.go: the raw query split on "~~" with "prd=" dropped, else the base
createFileNameFromURL_main(rawURL) ==
  IF ParseFails(rawURL) THEN InvalidUrlPdf
  ELSE ensurePdf(Join(lowerAll(
         partsOrBase(stripPrd(splitTildes(RawQuery(rawURL))), rawURL)), <<"-">>))

createFileNameFromURL(v, rawURL) ==
  IF v = "part_000" THEN createFileNameFromURL_goquery(rawURL)
  ELSE createFileNameFromURL_main(rawURL)

(* ------------------------- extractLinksFromHTML ------------------------ *)
Http == <<"http">>

Https == <<"http", "s", ":", "/", "/">>

\* the separator of a hidden input's value, "~https://"
TildeHttps == <<"~">> \o Https

DotTheWercs == <<".", "thewercs", ".", "com">>

DotBioRad == <<".", "bio", "-", "rad", ".", "com">>

WercsDocument ==
  <<"bio", "-", "rad", "-", "sds", ".", "thewercs", ".", "com", "/",
    "DirectDocumentDownloader", "/", "Document">>

BioRadWebPdf ==
  <<"bio", "-", "rad", ".", "com", "/", "sites", "/", "default", "/", "files", "/",
    "webroot", "/", "web", "/", "pdf">>

allowedDomains == <<WercsDocument, BioRadWebPdf>>

isAllowed(url) == \E d \in 1..Len(allowedDomains) : Contains(url, allowedDomains[d])

\* fullURL without the scheme prefix: what the hidden-input rule would
\* return if "https://" were not put back in front of a piece
fullURLNoScheme(part) == part

\* the URL one piece of a hidden input's value gives, <<>> for none
fullURL(part) ==
  IF HasPrefix(part, Http) THEN part
  ELSE IF Contains(part, DotTheWercs) \/ Contains(part, DotBioRad) THEN Https \o part
  ELSE <<>>

\* urls = append(urls, fullURL) when fullURL is not "" and is allowed
keepAllowed(u) == IF u # <<>> /\ isAllowed(u) THEN <<u>> ELSE <<>>

\* the inner loop over the pieces of one value
RECURSIVE hiddenParts(_)
hiddenParts(parts) ==
  IF Len(parts) = 0 THEN <<>>
  ELSE keepAllowed(fullURL(parts[1])) \o hiddenParts(Tail(parts))

\* An element of the parsed document: its tag ("input", "option", "a" or
\* another), the type attribute of an input, whether the value (href for an
\* anchor) attribute exists, and its text.
IsHidden(e) == e.tag = "input" /\ e.type = "hidden"

\* doc.Find("input[type='hidden']").Each(...)
RECURSIVE scanHidden(_)
scanHidden(doc) ==
  IF Len(doc) = 0 THEN <<>>
  ELSE (IF IsHidden(doc[1]) /\ doc[1].has
        THEN hiddenParts(Split(doc[1].val, TildeHttps)) ELSE <<>>)
       \o scanHidden(Tail(doc))

\* doc.Find("option").Each(...) and doc.Find("a").Each(...)
RECURSIVE scanTag(_, _)
scanTag(doc, tag) ==
  IF Len(doc) = 0 THEN <<>>
  ELSE (IF doc[1].tag = tag /\ doc[1].has /\ HasPrefix(doc[1].val, Http)
           /\ isAllowed(doc[1].val)
        THEN <<doc[1].val>> ELSE <<>>)
       \o scanTag(Tail(doc), tag)

\* part_000: hidden inputs, then options, then anchors
extractLinksFromHTML_goquery(doc) ==
  scanHidden(doc) \o scanTag(doc, "option") \o scanTag(doc, "a")

\* main.go: the href of every anchor, as it is
RECURSIVE extractLinksFromHTML_main(_)
extractLinksFromHTML_main(doc) ==
  IF Len(doc) = 0 THEN <<>>
  ELSE (IF doc[1].tag = "a" /\ doc[1].has THEN <<doc[1].val>> ELSE <<>>)
       \o extractLinksFromHTML_main(Tail(doc))

extractLinksFromHTML(v, doc) ==
  IF v = "part_000" THEN extractLinksFromHTML_goquery(doc)
  ELSE extractLinksFromHTML_main(doc)

(* ------------------------------- the state ---------------------------- *)
VARIABLES
  variant,       \* which version of the program runs
  downloadURLs,  \* main: the extracted URLs, each an index into URLS
  mpc,           \* main: where the dispatcher is
  launched,      \* main: workers started so far (the i of the launch loop)
  sent,          \* main: URLs sent so far
  urlChannel,    \* the buffered channel: task numbers, oldest first
  closed,        \* close(urlChannel) has run
  wg,            \* the WaitGroup counter
  wpc,           \* per goroutine: where it is
  wtask,         \* per goroutine: the task it holds (0: none)
  woff,          \* per goroutine: the offset of its open file, in chunks
  fs,            \* outputDirectory: what each path holds
  dirExists,     \* outputDirectory exists
  picked,        \* history, per task: times it was taken from the channel
  erred,         \* history, per goroutine: a call it made returned an error
  seen,          \* history, per task: what the existence test found
  resp,          \* history, per task: 0 no fetch, -1 network error, else status
  created,       \* history, per task: os.Create succeeded
  envfail,       \* history, per task: the environment failed an operation
  outcome,       \* history, per task: how downloadPDFFile returned
  lastDone,      \* history, per path: the task whose attempt returned last
  calls,         \* sequential caller: calls of downloadPDFFile started
  snap,          \* sequential caller: fs when the first call had returned
  htmlData,      \* extractor: the parsed markup
  urls,          \* extractor: the list extractLinksFromHTML returned
  epc,           \* extractor: "parse" before the call, "done" after
  inputURL,      \* filename deriver: the URL handed to createFileNameFromURL
  fileName,      \* filename deriver: what createFileNameFromURL returned
  npc,           \* filename deriver: "call" before the call, "done" after
  cpc,           \* crawl: where main is in steps 1 and 2
  pageNumber,    \* crawl: the loop variable of the render loop
  htmlContent,   \* crawl: the markup scrapePageHTMLWithChrome returned
  store,         \* crawl: what htmlOutputFilePath holds
  store0,        \* history: what htmlOutputFilePath held when the run started
  rendered,      \* history: the page numbers render was called for, in order
  renderErr,     \* history: the page numbers whose render failed
  written,       \* history: the page numbers whose append returned nil
  run,           \* pipeline: 1 in the first run of the program, 2 in the second
  fs0            \* history: what the destination paths held when the run started

vars ==
  <<variant, downloadURLs, mpc, launched, sent, urlChannel, closed, wg, wpc, wtask,
    woff, fs, dirExists, picked, erred, seen, resp, created, envfail, outcome, lastDone,
    calls, snap, htmlData, urls, epc, inputURL, fileName, npc, cpc, pageNumber,
    htmlContent, store, store0, rendered, renderErr, written, run, fs0>>

poolVars == <<downloadURLs, mpc, launched, sent, closed, wg>>

extractVars == <<htmlData, urls, epc>>

nameVars == <<inputURL, fileName, npc>>

crawlVars == <<cpc, pageNumber, htmlContent, store, store0, rendered, renderErr, written>>

runVars == <<run, fs0>>

(* ------------------------------ the URLs ------------------------------- *)
\* two URLs of different folders with the same base name, and a document
\* URL with a prd parameter
UrlA == Https \o <<"www", ".">> \o BioRadWebPdf \o <<"/", "lsr", "/", "X", ".", "pdf">>

UrlB == Https \o <<"www", ".">> \o BioRadWebPdf \o <<"/", "msd", "/", "X", ".", "pdf">>

UrlC ==
  Https \o WercsDocument \o <<"?", "prd", "=", "HRLS00001", "-", "3", "~", "~", "PDF">>

\* another document of the same product
UrlD ==
  Https \o WercsDocument \o <<"?", "prd", "=", "HRLS00001", "-", "3", "~", "~", "MTR">>

URLS == <<UrlA, UrlB, UrlC, UrlD>>

UrlIds == 1..Len(URLS)

\* outputFileName of every URL, under each version
FileNameOf == [v \in Variants |-> [u \in UrlIds |-> createFileNameFromURL(v, URLS[u])]]

Paths == {FileNameOf[v][u] : v \in Variants, u \in UrlIds}

\* the response body of a URL, in the chunks io.Copy writes
BodyLen(u) == IF u = 1 THEN ChunkCount ELSE 1

Body(u) == [k \in 1..BodyLen(u) |-> <<u, k>>]

\* a chunk nobody wrote (a hole) and the content of a file of an earlier run
Hole == <<0, 0>>

OldData == <<<<0, 1>>>>

NoEntry == [kind |-> "none", data |-> <<>>]

InitialEntry(k) == [kind |-> k, data |-> IF k = "file" THEN OldData ELSE <<>>]

Procs == 0..NumWorkers

Workers == 1..NumWorkers

Tasks == 1..Len(downloadURLs)

\* fullFilePath of the task a goroutine holds
PathOf(t) == FileNameOf[variant][downloadURLs[t]]

(* ---------------------------- fileExists ------------------------------- *)
\* part_000: os.Stat succeeds and the entry is no directory
fileExists(e) == e.kind # "none" /\ e.kind # "dir"

\* main.go: os.Stat returns no error
statOk(e) == e.kind # "none"

\* an existence test that never finds the file
neverExists(v, e) == FALSE

\* the test at the head of downloadPDFFile
alreadyExists(v, e) == IF v = "part_000" THEN fileExists(e) ELSE statOk(e)

(* --------------------------- downloadPDFFile --------------------------- *)
\* a return after which a worker whose call failed leaves its loop
ReturnsOrStops(w, t, how, env) ==
  /\ wpc' = [wpc EXCEPT ![w] = IF w = 0 THEN "idle"
                               ELSE IF how \in {"skipped", "downloaded"} THEN "recv"
                               ELSE "exited"]
  /\ wtask' = [wtask EXCEPT ![w] = 0]
  /\ woff' = [woff EXCEPT ![w] = 0]
  /\ outcome' = [outcome EXCEPT ![t] = how]
  /\ envfail' = [envfail EXCEPT ![t] = env]
  /\ erred' = [erred EXCEPT ![w] = @ \/ how \notin {"skipped", "downloaded"}]
  /\ lastDone' = [lastDone EXCEPT ![FileNameOf[variant][downloadURLs[t]]] = t]

\* downloadPDFFile returns to its caller: a worker goes back to its range
\* loop, the sequential caller is idle again
Returns(w, t, how, env) ==
  /\ wpc' = [wpc EXCEPT ![w] = IF w = 0 THEN "idle" ELSE "recv"]
  /\ wtask' = [wtask EXCEPT ![w] = 0]
  /\ woff' = [woff EXCEPT ![w] = 0]
  /\ outcome' = [outcome EXCEPT ![t] = how]
  /\ envfail' = [envfail EXCEPT ![t] = env]
  /\ erred' = [erred EXCEPT ![w] = @ \/ how \notin {"skipped", "downloaded"}]
  /\ lastDone' = [lastDone EXCEPT ![PathOf(t)] = t]

\* the existence test: skip, or go on to the fetch
Stat(w) ==
  /\ wpc[w] = "stat"
  /\ LET t == wtask[w] IN
     /\ seen' = [seen EXCEPT ![t] = fs[PathOf(t)].kind]
     /\ IF alreadyExists(variant, fs[PathOf(t)])
        THEN Returns(w, t, "skipped", FALSE)
        ELSE /\ wpc' = [wpc EXCEPT ![w] = "get"]
             /\ UNCHANGED <<wtask, woff, erred, outcome, envfail, lastDone>>
  /\ UNCHANGED <<variant, poolVars, urlChannel, fs, dirExists, picked, resp, created,
                 calls, snap, extractVars, nameVars, runVars,
                 crawlVars>>

\* http.Get answers 200 OK
GetOk(w) ==
  /\ wpc[w] = "get"
  /\ resp' = [resp EXCEPT ![wtask[w]] = 200]
  /\ wpc' = [wpc EXCEPT ![w] = "mkdir"]
  /\ UNCHANGED <<variant, poolVars, urlChannel, wtask, woff, fs, dirExists, picked, erred,
                 seen, created, envfail, outcome, lastDone, calls, snap, extractVars,
                 nameVars, runVars,
                 crawlVars>>

\* http.Get returns an error
GetNetErr(w) ==
  /\ wpc[w] = "get"
  /\ resp' = [resp EXCEPT ![wtask[w]] = -1]
  /\ Returns(w, wtask[w], "err_fetch", TRUE)
  /\ UNCHANGED <<variant, poolVars, urlChannel, fs, dirExists, picked, seen, created,
                 calls, snap, extractVars, nameVars, runVars,
                 crawlVars>>

\* the status codes besides 200 that the model's server answers
OtherStatus == {204, 404}

\* http.Get answers with a status that is not 200
GetBadStatus(w) ==
  /\ wpc[w] = "get"
  /\ \E c \in OtherStatus : resp' = [resp EXCEPT ![wtask[w]] = c]
  /\ Returns(w, wtask[w], "err_status", TRUE)
  /\ UNCHANGED <<variant, poolVars, urlChannel, fs, dirExists, picked, seen, created,
                 calls, snap, extractVars, nameVars, runVars,
                 crawlVars>>

\* os.MkdirAll succeeds
Mkdir(w) ==
  /\ wpc[w] = "mkdir"
  /\ dirExists' = TRUE
  /\ wpc' = [wpc EXCEPT ![w] = "create"]
  /\ UNCHANGED <<variant, poolVars, urlChannel, wtask, woff, fs, picked, erred, seen, resp,
                 created, envfail, outcome, lastDone, calls, snap, extractVars,
                 nameVars, runVars,
                 crawlVars>>

\* os.MkdirAll fails; it cannot once the directory exists
MkdirFail(w) ==
  /\ wpc[w] = "mkdir"
  /\ ~dirExists
  /\ Returns(w, wtask[w], "err_mkdir", TRUE)
  /\ UNCHANGED <<variant, poolVars, urlChannel, fs, dirExists, picked, seen, resp,
                 created, calls, snap, extractVars, nameVars, runVars,
                 crawlVars>>

\* what os.Create (O_RDWR|O_CREATE|O_TRUNC) leaves at the path
Truncated(e) == IF e.kind = "other" THEN e ELSE [kind |-> "file", data |-> <<>>]

\* os.Create: it fails on a directory, else it creates or truncates the file
Create(w) ==
  /\ wpc[w] = "create"
  /\ LET t == wtask[w] IN
     IF fs[PathOf(t)].kind = "dir"
     THEN /\ Returns(w, t, "err_create", FALSE)
          /\ UNCHANGED <<fs, created>>
     ELSE /\ fs' = [fs EXCEPT ![PathOf(t)] = Truncated(@)]
          /\ created' = [created EXCEPT ![t] = TRUE]
          /\ wpc' = [wpc EXCEPT ![w] = "copy"]
          /\ woff' = [woff EXCEPT ![w] = 0]
          /\ UNCHANGED <<wtask, erred, outcome, envfail, lastDone>>
  /\ UNCHANGED <<variant, poolVars, urlChannel, dirExists, picked, seen, resp, calls,
                 snap, extractVars, nameVars, runVars,
                 crawlVars>>

\* os.Create fails for a reason of the environment
CreateFail(w) ==
  /\ wpc[w] = "create"
  /\ fs[PathOf(wtask[w])].kind # "dir"
  /\ Returns(w, wtask[w], "err_create", TRUE)
  /\ UNCHANGED <<variant, poolVars, urlChannel, fs, dirExists, picked, seen, resp,
                 created, calls, snap, extractVars, nameVars, runVars,
                 crawlVars>>

\* a write of one chunk at offset off of a file holding data
RECURSIVE Holes(_)
Holes(n) == IF n <= 0 THEN <<>> ELSE <<Hole>> \o Holes(n - 1)

\* a write that appends whatever the offset of the descriptor (O_APPEND)
WriteAppend(data, off, chunk) == Append(data, chunk)

WriteAt(data, off, chunk) ==
  IF off < Len(data) THEN [data EXCEPT ![off + 1] = chunk]
  ELSE data \o Holes(off - Len(data)) \o <<chunk>>

\* io.Copy writes the next chunk of the body; after the last one
\* downloadPDFFile logs "Downloaded" and returns nil
CopyChunk(w) ==
  /\ wpc[w] = "copy"
  /\ LET t == wtask[w]
         u == downloadURLs[t]
     IN  /\ fs' = [fs EXCEPT ![PathOf(t)] =
                     [@ EXCEPT !.data = WriteAt(@, woff[w], Body(u)[woff[w] + 1])]]
         /\ IF woff[w] + 1 = BodyLen(u)
            THEN Returns(w, t, "downloaded", envfail[t])
            ELSE /\ woff' = [woff EXCEPT ![w] = @ + 1]
                 /\ UNCHANGED <<wpc, wtask, erred, outcome, envfail, lastDone>>
  /\ UNCHANGED <<variant, poolVars, urlChannel, dirExists, picked, seen, resp, created,
                 calls, snap, extractVars, nameVars, runVars,
                 crawlVars>>

\* io.Copy fails: the file stays as far as it was written
CopyFail(w) ==
  /\ wpc[w] = "copy"
  /\ Returns(w, wtask[w], "err_copy", TRUE)
  /\ UNCHANGED <<variant, poolVars, urlChannel, fs, dirExists, picked, seen, resp,
                 created, calls, snap, extractVars, nameVars, runVars,
                 crawlVars>>

\* one step of downloadPDFFile in goroutine w
Download(w) ==
  \/ Stat(w)
  \/ GetOk(w)
  \/ GetNetErr(w)
  \/ GetBadStatus(w)
  \/ Mkdir(w)
  \/ MkdirFail(w)
  \/ Create(w)
  \/ CreateFail(w)
  \/ CopyChunk(w)
  \/ CopyFail(w)

(* --------------------------- workerDownloadPDF ------------------------- *)
histVars == <<seen, resp, created, envfail, outcome, lastDone>>

\* a receive that leaves the task in the channel
ReceiveNoDequeue(w) ==
  /\ w \in Workers
  /\ wpc[w] = "recv"
  /\ urlChannel # <<>>
  /\ wtask' = [wtask EXCEPT ![w] = Head(urlChannel)]
  /\ picked' = [picked EXCEPT ![Head(urlChannel)] = @ + 1]
  /\ wpc' = [wpc EXCEPT ![w] = "stat"]
  /\ UNCHANGED <<variant, poolVars, urlChannel, woff, fs, dirExists, erred, seen, resp,
                 created, envfail, outcome, lastDone, calls, snap, extractVars,
                 nameVars, runVars,
                 crawlVars>>

\* for downloadURL := range urlChannel: take the oldest task
Receive(w) ==
  /\ w \in Workers
  /\ wpc[w] = "recv"
  /\ urlChannel # <<>>
  /\ wtask' = [wtask EXCEPT ![w] = Head(urlChannel)]
  /\ urlChannel' = Tail(urlChannel)
  /\ picked' = [picked EXCEPT ![Head(urlChannel)] = @ + 1]
  /\ wpc' = [wpc EXCEPT ![w] = "stat"]
  /\ UNCHANGED <<variant, poolVars, woff, fs, dirExists, erred, histVars, calls, snap,
                 extractVars, nameVars, runVars,
                 crawlVars>>

\* the range loop ends on the closed, empty channel; the deferred wg.Done runs
WorkerExit(w) ==
  /\ w \in Workers
  /\ wpc[w] = "recv"
  /\ urlChannel = <<>>
  /\ closed
  /\ wpc' = [wpc EXCEPT ![w] = "exited"]
  /\ wg' = wg - 1
  /\ UNCHANGED <<variant, downloadURLs, mpc, launched, sent, closed, urlChannel, wtask,
                 woff, fs, dirExists, picked, erred, histVars, calls, snap, extractVars,
                 nameVars, runVars,
                 crawlVars>>

workerDownloadPDF(w) == Receive(w) \/ WorkerExit(w) \/ Download(w)

(* --------------------------------- main -------------------------------- *)
\* wg.Add(1); go workerDownloadPDF(...)
Launch ==
  /\ mpc = "launch"
  /\ launched < NumWorkers
  /\ wg' = wg + 1
  /\ launched' = launched + 1
  /\ wpc' = [wpc EXCEPT ![launched + 1] = "recv"]
  /\ mpc' = IF launched + 1 = NumWorkers THEN "send" ELSE "launch"
  /\ UNCHANGED <<variant, downloadURLs, sent, closed, urlChannel, wtask, woff, fs,
                 dirExists, picked, erred, histVars, calls, snap, extractVars,
                 nameVars, runVars,
                 crawlVars>>

\* a send that puts the task at the head of the channel
SendFront ==
  /\ mpc = "send"
  /\ sent < Len(downloadURLs)
  /\ Len(urlChannel) < Len(downloadURLs)
  /\ urlChannel' = <<sent + 1>> \o urlChannel
  /\ sent' = sent + 1
  /\ UNCHANGED <<variant, downloadURLs, mpc, launched, closed, wg, wpc, wtask, woff, fs,
                 dirExists, picked, erred, histVars, calls, snap, extractVars,
                 nameVars, runVars,
                 crawlVars>>

\* a send into a channel made one place too small: it blocks while
\* len(downloadURLs) - 1 tasks are queued
SendSmallBuffer ==
  /\ mpc = "send"
  /\ sent < Len(downloadURLs)
  /\ Len(urlChannel) < Len(downloadURLs) - 1
  /\ urlChannel' = Append(urlChannel, sent + 1)
  /\ sent' = sent + 1
  /\ UNCHANGED <<variant, downloadURLs, mpc, launched, closed, wg, wpc, wtask, woff, fs,
                 dirExists, picked, erred, histVars, calls, snap, extractVars, nameVars,
                 runVars, crawlVars>>

\* urlChannel <- url: it blocks while the buffer, of capacity
\* len(downloadURLs), is full
Send ==
  /\ mpc = "send"
  /\ sent < Len(downloadURLs)
  /\ Len(urlChannel) < Len(downloadURLs)
  /\ urlChannel' = Append(urlChannel, sent + 1)
  /\ sent' = sent + 1
  /\ UNCHANGED <<variant, downloadURLs, mpc, launched, closed, wg, wpc, wtask, woff, fs,
                 dirExists, picked, erred, histVars, calls, snap, extractVars,
                 nameVars, runVars,
                 crawlVars>>

\* a dispatcher that goes on to wait without closing the channel
CloseNever ==
  /\ mpc = "send"
  /\ sent = Len(downloadURLs)
  /\ mpc' = "wait"
  /\ UNCHANGED <<variant, downloadURLs, launched, sent, closed, wg, urlChannel, wpc, wtask,
                 woff, fs, dirExists, picked, erred, seen, resp, created, envfail, outcome,
                 lastDone, calls, snap, extractVars, nameVars, runVars,
                 crawlVars>>

\* close(urlChannel)
Close ==
  /\ mpc = "send"
  /\ sent = Len(downloadURLs)
  /\ closed' = TRUE
  /\ mpc' = "wait"
  /\ UNCHANGED <<variant, downloadURLs, launched, sent, wg, urlChannel, wpc, wtask, woff,
                 fs, dirExists, picked, erred, histVars, calls, snap, extractVars,
                 nameVars, runVars,
                 crawlVars>>

\* a wait that returns whatever the counter
WaitNoGuard ==
  /\ mpc = "wait"
  /\ mpc' = "done"
  /\ UNCHANGED <<variant, downloadURLs, launched, sent, closed, wg, urlChannel, wpc,
                 wtask, woff, fs, dirExists, picked, erred, seen, resp, created, envfail,
                 outcome, lastDone, calls, snap, extractVars, nameVars, runVars,
                 crawlVars>>

\* wg.Wait() returns and "All downloads completed successfully." is logged
WaitReturn ==
  /\ mpc = "wait"
  /\ wg = 0
  /\ mpc' = "done"
  /\ UNCHANGED <<variant, downloadURLs, launched, sent, closed, wg, urlChannel, wpc,
                 wtask, woff, fs, dirExists, picked, erred, histVars, calls, snap,
                 extractVars, nameVars, runVars,
                 crawlVars>>

main == Launch \/ Send \/ Close \/ WaitReturn

(* ------------------------- the pool: Init and Next --------------------- *)
\* the task lists of the model
Extended(shorter, S, n) ==
  shorter \cup {Append(q, x) : q \in {r \in shorter : Len(r) = n - 1}, x \in S}

RECURSIVE SeqsUpTo(_, _)
SeqsUpTo(S, n) == IF n = 0 THEN {<<>>} ELSE Extended(SeqsUpTo(S, n - 1), S, n)

\* what a path may hold when the pool starts: nothing, or a file of an
\* earlier run
PoolKinds == {"none", "file"}

NoHistory(n) ==
  /\ picked = [t \in 1..n |-> 0]
  /\ seen = [t \in 1..n |-> "unseen"]
  /\ resp = [t \in 1..n |-> 0]
  /\ created = [t \in 1..n |-> FALSE]
  /\ envfail = [t \in 1..n |-> FALSE]
  /\ outcome = [t \in 1..n |-> "none"]
  /\ lastDone = [p \in Paths |-> 0]

NoExtract ==
  /\ htmlData = <<>>
  /\ urls = <<>>
  /\ epc = "off"

\* the filename deriver and the crawl are not running
NoName ==
  /\ inputURL = <<>>
  /\ fileName = <<>>
  /\ npc = "off"

NoCrawl ==
  /\ cpc = "off"
  /\ pageNumber = 0
  /\ htmlContent = <<>>
  /\ store = [kind |-> "none", data |-> <<>>]
  /\ store0 = store
  /\ rendered = <<>>
  /\ renderErr = {}
  /\ written = {}

NoRun ==
  /\ run = 1
  /\ fs0 = fs

\* The pool is the same text in both versions; with nothing or a file at a
\* path the two existence tests agree, so the pool runs as part_000.
Init ==
  /\ variant = "part_000"
  /\ downloadURLs \in SeqsUpTo(UrlIds, MaxTasks)
  /\ mpc = "launch"
  /\ launched = 0
  /\ sent = 0
  /\ urlChannel = <<>>
  /\ closed = FALSE
  /\ wg = 0
  /\ wpc = [w \in Procs |-> IF w = 0 THEN "off" ELSE "unstarted"]
  /\ wtask = [w \in Procs |-> 0]
  /\ woff = [w \in Procs |-> 0]
  /\ erred = [w \in Procs |-> FALSE]
  /\ fs \in [Paths -> {InitialEntry(k) : k \in PoolKinds}]
  /\ dirExists \in {d \in BOOLEAN : (\E p \in Paths : fs[p].kind # "none") => d}
  /\ NoHistory(Len(downloadURLs))
  /\ calls = 0
  /\ snap = fs
  /\ NoExtract
  /\ NoName
  /\ NoCrawl
  /\ NoRun

Next == main \/ \E w \in Workers : workerDownloadPDF(w)

Spec == Init /\ [][Next]_vars

\* the scheduler runs every goroutine that can take a step, and every
\* download call returns
FairSpec ==
  /\ Init
  /\ [][Next]_vars
  /\ WF_vars(main)
  /\ \A w \in Workers : WF_vars(workerDownloadPDF(w))

(* --------------- downloadPDFFile called twice in sequence -------------- *)
\* one goroutine takes the same URL twice, as a single worker does with a
\* URL that was extracted twice
SeqCall ==
  /\ wpc[0] = "idle"
  /\ calls < Len(downloadURLs)
  /\ calls' = calls + 1
  /\ wtask' = [wtask EXCEPT ![0] = calls + 1]
  /\ picked' = [picked EXCEPT ![calls + 1] = @ + 1]
  /\ wpc' = [wpc EXCEPT ![0] = "stat"]
  /\ snap' = IF calls = 1 THEN fs ELSE snap
  /\ UNCHANGED <<variant, poolVars, urlChannel, woff, fs, dirExists, erred, histVars,
                 extractVars, nameVars, runVars,
                 crawlVars>>

AllKinds == {"none", "file", "dir", "other"}

SeqInit ==
  /\ variant \in Variants
  /\ \E u \in UrlIds : downloadURLs = <<u, u>>
  /\ mpc = "off"
  /\ launched = 0
  /\ sent = 0
  /\ urlChannel = <<>>
  /\ closed = FALSE
  /\ wg = 0
  /\ wpc = [w \in Procs |-> IF w = 0 THEN "idle" ELSE "unstarted"]
  /\ wtask = [w \in Procs |-> 0]
  /\ woff = [w \in Procs |-> 0]
  /\ erred = [w \in Procs |-> FALSE]
  /\ fs \in [Paths -> {InitialEntry(k) : k \in AllKinds}]
  /\ dirExists \in {d \in BOOLEAN : (\E p \in Paths : fs[p].kind # "none") => d}
  /\ NoHistory(Len(downloadURLs))
  /\ calls = 0
  /\ snap = fs
  /\ NoExtract
  /\ NoName
  /\ NoCrawl
  /\ NoRun

SeqNext == SeqCall \/ Download(0)

SeqSpec == SeqInit /\ [][SeqNext]_vars

(* ------------------------------ extraction ----------------------------- *)
Example == <<"example">>

XPdf == <<"/", "X", ".", "pdf">>

\* the value of the hidden input of the spec's scenario
ScenarioValue == <<"foo">> \o TildeHttps \o Example \o <<".">> \o BioRadWebPdf \o XPdf

ScenarioURL == Https \o Example \o <<".">> \o BioRadWebPdf \o XPdf

\* a URL outside the allow-list
EvilURL == Https \o <<"evil", ".", "com">> \o XPdf

\* a blob whose first piece is a URL outside the allow-list and whose second
\* piece is inside it
MixedValue ==
  Https \o <<"www", ".", "bio", "-", "rad", ".", "com", "/", "other">>
    \o TildeHttps \o <<"www", ".">> \o BioRadWebPdf \o XPdf

\* allow-listed text with no scheme, with and without a recognized host
NoScheme == <<"www", ".">> \o BioRadWebPdf \o XPdf

NoHost == BioRadWebPdf \o XPdf

Values == {ScenarioValue, UrlC, EvilURL, MixedValue, NoScheme, NoHost}

Element(tag, type, has, val) == [tag |-> tag, type |-> type, has |-> has, val |-> val]

Elements ==
  {Element("input", ty, TRUE, v) : ty \in {"hidden", "text"}, v \in Values}
    \cup {Element(tg, "", TRUE, v) : tg \in {"option", "a", "div"}, v \in Values}
    \cup {Element("input", ty, FALSE, <<>>) : ty \in {"hidden", "text"}}
    \cup {Element(tg, "", FALSE, <<>>) : tg \in {"option", "a", "div"}}

ExtractInit ==
  /\ variant \in Variants
  /\ downloadURLs = <<>>
  /\ mpc = "off"
  /\ launched = 0
  /\ sent = 0
  /\ urlChannel = <<>>
  /\ closed = FALSE
  /\ wg = 0
  /\ wpc = [w \in Procs |-> IF w = 0 THEN "off" ELSE "unstarted"]
  /\ wtask = [w \in Procs |-> 0]
  /\ woff = [w \in Procs |-> 0]
  /\ erred = [w \in Procs |-> FALSE]
  /\ fs = [p \in Paths |-> NoEntry]
  /\ dirExists = FALSE
  /\ NoHistory(0)
  /\ calls = 0
  /\ snap = fs
  /\ htmlData \in SeqsUpTo(Elements, MaxElems)
  /\ urls = <<>>
  /\ epc = "parse"
  /\ NoName
  /\ NoCrawl
  /\ NoRun

\* main: downloadURLs := extractLinksFromHTML(htmlData)
Extract ==
  /\ epc = "parse"
  /\ urls' = extractLinksFromHTML(variant, htmlData)
  /\ epc' = "done"
  /\ UNCHANGED <<variant, poolVars, urlChannel, wpc, wtask, woff, fs, dirExists, picked,
                 erred, histVars, calls, snap, htmlData, nameVars, runVars, crawlVars>>

ExtractNext == Extract

ExtractSpec == ExtractInit /\ [][ExtractNext]_vars

(* ------------------------- the filename deriver ------------------------ *)
\* the host every input URL of the deriver has
NameHost == Https \o <<"www", ".", "bio", "-", "rad", ".", "com">>

\* the paths of the input URLs: none, the root, a plain PDF, a name with an
\* underscore and a space, a path that ends in "..", one that ends in "/"
NamePaths ==
  { <<>>,
    <<"/">>,
    <<"/", "lsr", "/", "X", ".", "pdf">>,
    <<"/", "TS", "_", "Staph", " ", "Broth", ".", "pdf">>,
    <<"/", "lsr", "/", ".", ".">>,
    <<"/", "lsr", "/">> }

\* the queries of the input URLs: none, the composite identifier of the
\* spec's example, identifiers whose segments are punctuation, an empty one,
\* one that holds "../", a query without prd, and prd as a second parameter
NameQueries ==
  { <<>>,
    <<"?", "prd", "=", "HRLS00001", "-", "3", "~", "~", "PDF", "~", "~", "MTR",
      "~", "~", "AGHS", "~", "~", "EN">>,
    <<"?", "prd", "=", "~", "~">>,
    <<"?", "prd", "=", "-", "_", "~", "~", "EN">>,
    <<"?", "prd", "=">>,
    <<"?", "prd", "=", ".", ".", "/", "X">>,
    <<"?", "lang", "=", "EN">>,
    <<"?", "lang", "=", "EN", "&", "prd", "=", "X", "~", "~", "PDF">> }

\* a URL url.Parse rejects: it holds a control character
BadURL == NameHost \o <<"/", "CTL">>

RawURLs == {NameHost \o p \o q : p \in NamePaths, q \in NameQueries} \cup {BadURL}

NameInit ==
  /\ variant \in Variants
  /\ downloadURLs = <<>>
  /\ mpc = "off"
  /\ launched = 0
  /\ sent = 0
  /\ urlChannel = <<>>
  /\ closed = FALSE
  /\ wg = 0
  /\ wpc = [w \in Procs |-> IF w = 0 THEN "off" ELSE "unstarted"]
  /\ wtask = [w \in Procs |-> 0]
  /\ woff = [w \in Procs |-> 0]
  /\ erred = [w \in Procs |-> FALSE]
  /\ fs = [p \in Paths |-> NoEntry]
  /\ dirExists = FALSE
  /\ NoHistory(0)
  /\ calls = 0
  /\ snap = fs
  /\ NoExtract
  /\ NoCrawl
  /\ NoRun
  /\ inputURL \in RawURLs
  /\ fileName = <<>>
  /\ npc = "call"

\* workerDownloadPDF: outputFileName := createFileNameFromURL(downloadURL)
DeriveName ==
  /\ npc = "call"
  /\ fileName' = createFileNameFromURL(variant, inputURL)
  /\ npc' = "done"
  /\ UNCHANGED <<variant, poolVars, urlChannel, wpc, wtask, woff, fs, dirExists, picked,
                 erred, histVars, calls, snap, extractVars, inputURL, runVars, crawlVars>>

NameNext == DeriveName

NameSpec == NameInit /\ [][NameNext]_vars

(* ------------------------- main: steps 1 and 2 ------------------------- *)
\* startPage of part_000; endPage is 10 there, the model stops earlier
startPage == 0

endPage == 3

\* the pages of the crawl, in the order of the loop
PageNumbers == startPage..(endPage - 1)

\* the document a page links: each page links its own document, one of the
\* URLs of the download model
PageURL(p) == URLS[p - startPage + 1]

\* the markup of a page: an anchor and an option that link its document;
\* a write that fails may have written a part of it
PageMarkup(p) ==
  <<Element("a", "", TRUE, PageURL(p)), Element("option", "", TRUE, PageURL(p))>>

\* the markup an existing store holds when the run starts
OldMarkup == <<Element("a", "", TRUE, ScenarioURL)>>

\* what everything but steps 1 and 2 of main works on
downloadVars ==
  <<variant, poolVars, urlChannel, wpc, wtask, woff, fs, dirExists, picked, erred,
    histVars, calls, snap>>

\* pageNumber++ and the test of the loop
NextPage ==
  /\ pageNumber' = pageNumber + 1
  /\ cpc' = IF pageNumber + 1 < endPage THEN "render" ELSE "read"

\* a run that renders whatever the store holds
CheckStoreAlways ==
  /\ cpc = "check"
  /\ cpc' = "render"
  /\ pageNumber' = startPage
  /\ UNCHANGED <<downloadVars, extractVars, nameVars, runVars, htmlContent, store, store0,
                 rendered, renderErr, written>>

\* if !fileExists(htmlOutputFilePath): enter the render loop, else skip it
CheckStore ==
  /\ cpc = "check"
  /\ cpc' = IF ~fileExists(store) /\ startPage < endPage THEN "render" ELSE "read"
  /\ pageNumber' = startPage
  /\ UNCHANGED <<downloadVars, extractVars, nameVars, runVars, htmlContent, store, store0,
                 rendered, renderErr, written>>

\* scrapePageHTMLWithChrome returns the markup of the page
RenderOk ==
  /\ cpc = "render"
  /\ rendered' = Append(rendered, pageNumber)
  /\ htmlContent' = PageMarkup(pageNumber)
  /\ cpc' = "append"
  /\ UNCHANGED <<downloadVars, extractVars, nameVars, runVars, pageNumber, store, store0,
                 renderErr, written>>

\* a render error that ends the run
RenderFailAborts ==
  /\ cpc = "render"
  /\ rendered' = Append(rendered, pageNumber)
  /\ renderErr' = renderErr \cup {pageNumber}
  /\ cpc' = "fatal"
  /\ UNCHANGED <<downloadVars, extractVars, nameVars, runVars, pageNumber, htmlContent, store,
                 store0, written>>

\* scrapePageHTMLWithChrome returns an error: log and continue
RenderFail ==
  /\ cpc = "render"
  /\ rendered' = Append(rendered, pageNumber)
  /\ renderErr' = renderErr \cup {pageNumber}
  /\ NextPage
  /\ UNCHANGED <<downloadVars, extractVars, nameVars, runVars, htmlContent, store, store0,
                 written>>

\* a write that replaces the content of the store (O_TRUNC for O_APPEND)
AppendOverwrite ==
  /\ cpc = "append"
  /\ store.kind # "dir"
  /\ store' = [kind |-> "file", data |-> htmlContent]
  /\ written' = written \cup {pageNumber}
  /\ NextPage
  /\ UNCHANGED <<downloadVars, extractVars, nameVars, runVars, htmlContent, store0, rendered,
                 renderErr>>

\* appendTextToFile returns nil: the file is opened (created when missing)
\* for appending and the whole markup is written
AppendOk ==
  /\ cpc = "append"
  /\ store.kind # "dir"
  /\ store' = [kind |-> "file", data |-> store.data \o htmlContent]
  /\ written' = written \cup {pageNumber}
  /\ NextPage
  /\ UNCHANGED <<downloadVars, extractVars, nameVars, runVars, htmlContent, store0, rendered,
                 renderErr>>

\* os.OpenFile fails, as it always does on a directory: nothing changes
AppendOpenFail ==
  /\ cpc = "append"
  /\ NextPage
  /\ UNCHANGED <<downloadVars, extractVars, nameVars, runVars, htmlContent, store, store0,
                 rendered, renderErr, written>>

\* file.WriteString fails: the file was opened (created when missing) and a
\* part of the markup, possibly none, was written
AppendWriteFail ==
  /\ cpc = "append"
  /\ store.kind # "dir"
  /\ \E k \in 0..(Len(htmlContent) - 1) :
       store' = [kind |-> "file", data |-> store.data \o SubSeq(htmlContent, 1, k)]
  /\ NextPage
  /\ UNCHANGED <<downloadVars, extractVars, nameVars, runVars, htmlContent, store0, rendered,
                 renderErr, written>>

\* readEntireFile returns the content of the store
ReadStore ==
  /\ cpc = "read"
  /\ store.kind = "file"
  /\ htmlData' = store.data
  /\ epc' = "parse"
  /\ cpc' = "extract"
  /\ UNCHANGED <<downloadVars, nameVars, runVars, urls, pageNumber, htmlContent, store, store0,
                 rendered, renderErr, written>>

\* readEntireFile fails on a missing file or a directory: log.Fatalf ends
\* the process
ReadFatal ==
  /\ cpc = "read"
  /\ store.kind # "file"
  /\ cpc' = "fatal"
  /\ UNCHANGED <<downloadVars, extractVars, nameVars, runVars, pageNumber, htmlContent, store,
                 store0, rendered, renderErr, written>>

\* what htmlOutputFilePath may hold when a run starts: nothing, an empty
\* file, a file with markup, a directory
InitialStores ==
  { [kind |-> "none", data |-> <<>>],
    [kind |-> "file", data |-> <<>>],
    [kind |-> "file", data |-> OldMarkup],
    [kind |-> "dir", data |-> <<>>] }

CrawlInit ==
  /\ variant = "part_000"
  /\ downloadURLs = <<>>
  /\ mpc = "off"
  /\ launched = 0
  /\ sent = 0
  /\ urlChannel = <<>>
  /\ closed = FALSE
  /\ wg = 0
  /\ wpc = [w \in Procs |-> IF w = 0 THEN "off" ELSE "unstarted"]
  /\ wtask = [w \in Procs |-> 0]
  /\ woff = [w \in Procs |-> 0]
  /\ erred = [w \in Procs |-> FALSE]
  /\ fs = [p \in Paths |-> NoEntry]
  /\ dirExists = FALSE
  /\ NoHistory(0)
  /\ calls = 0
  /\ snap = fs
  /\ NoExtract
  /\ NoName
  /\ cpc = "check"
  /\ pageNumber = startPage
  /\ htmlContent = <<>>
  /\ store \in InitialStores
  /\ store0 = store
  /\ rendered = <<>>
  /\ renderErr = {}
  /\ written = {}
  /\ NoRun

\* steps 1 and 2 of main, up to the call of extractLinksFromHTML
CrawlNext ==
  \/ CheckStore
  \/ RenderOk
  \/ RenderFail
  \/ AppendOk
  \/ AppendOpenFail
  \/ AppendWriteFail
  \/ ReadStore
  \/ ReadFatal
  \/ Extract

CrawlSpec == CrawlInit /\ [][CrawlNext]_vars

(* ------------------- the whole program, run twice ---------------------- *)
\* the index in URLS of an extracted URL
IdOf(u) == CHOOSE i \in UrlIds : URLS[i] = u

IdsOf(us) == [k \in 1..Len(us) |-> IdOf(us[k])]

\* main, step 3: the extracted list becomes the batch, the channel is made
\* with its length and the workers are about to be launched
MakeChannel ==
  /\ cpc = "extract"
  /\ epc = "done"
  /\ cpc' = "pool"
  /\ downloadURLs' = IdsOf(urls)
  /\ mpc' = "launch"
  /\ urlChannel' = <<>>
  /\ picked' = [t \in 1..Len(urls) |-> 0]
  /\ seen' = [t \in 1..Len(urls) |-> "unseen"]
  /\ resp' = [t \in 1..Len(urls) |-> 0]
  /\ created' = [t \in 1..Len(urls) |-> FALSE]
  /\ envfail' = [t \in 1..Len(urls) |-> FALSE]
  /\ outcome' = [t \in 1..Len(urls) |-> "none"]
  /\ UNCHANGED <<variant, launched, sent, closed, wg, wpc, wtask, woff, fs, dirExists,
                 erred, lastDone, calls, snap, extractVars, nameVars, runVars, pageNumber,
                 htmlContent, store, store0, rendered, renderErr, written>>

\* every download call of the run returned nil
AllSucceeded == \A t \in Tasks : outcome[t] \in {"downloaded", "skipped"}

\* the program is started again after a run that logged "All downloads
\* completed successfully." and in which every download succeeded: the
\* files stay, everything in memory starts afresh
Rerun ==
  /\ run = 1
  /\ mpc = "done"
  /\ AllSucceeded
  /\ run' = 2
  /\ fs0' = fs
  /\ store0' = store
  /\ cpc' = "check"
  /\ pageNumber' = startPage
  /\ htmlContent' = <<>>
  /\ rendered' = <<>>
  /\ renderErr' = {}
  /\ written' = {}
  /\ htmlData' = <<>>
  /\ urls' = <<>>
  /\ epc' = "off"
  /\ downloadURLs' = <<>>
  /\ mpc' = "off"
  /\ launched' = 0
  /\ sent' = 0
  /\ urlChannel' = <<>>
  /\ closed' = FALSE
  /\ wg' = 0
  /\ wpc' = [w \in Procs |-> IF w = 0 THEN "off" ELSE "unstarted"]
  /\ wtask' = [w \in Procs |-> 0]
  /\ woff' = [w \in Procs |-> 0]
  /\ erred' = [w \in Procs |-> FALSE]
  /\ picked' = <<>>
  /\ seen' = <<>>
  /\ resp' = <<>>
  /\ created' = <<>>
  /\ envfail' = <<>>
  /\ outcome' = <<>>
  /\ lastDone' = [q \in Paths |-> 0]
  /\ UNCHANGED <<variant, fs, dirExists, store, calls, snap, nameVars>>

\* what htmlOutputFilePath may hold when the first run starts: nothing, an
\* empty file, the markup of a page, a directory
PipelineStores ==
  { [kind |-> "none", data |-> <<>>],
    [kind |-> "file", data |-> <<>>],
    [kind |-> "file", data |-> PageMarkup(startPage)],
    [kind |-> "dir", data |-> <<>>] }

PipelineInit ==
  /\ variant = "part_000"
  /\ downloadURLs = <<>>
  /\ mpc = "off"
  /\ launched = 0
  /\ sent = 0
  /\ urlChannel = <<>>
  /\ closed = FALSE
  /\ wg = 0
  /\ wpc = [w \in Procs |-> IF w = 0 THEN "off" ELSE "unstarted"]
  /\ wtask = [w \in Procs |-> 0]
  /\ woff = [w \in Procs |-> 0]
  /\ erred = [w \in Procs |-> FALSE]
  /\ fs \in [Paths -> {InitialEntry(k) : k \in PoolKinds}]
  /\ dirExists \in {d \in BOOLEAN : (\E p \in Paths : fs[p].kind # "none") => d}
  /\ NoHistory(0)
  /\ calls = 0
  /\ snap = fs
  /\ NoExtract
  /\ NoName
  /\ cpc = "check"
  /\ pageNumber = startPage
  /\ htmlContent = <<>>
  /\ store \in PipelineStores
  /\ store0 = store
  /\ rendered = <<>>
  /\ renderErr = {}
  /\ written = {}
  /\ NoRun

\* one step of downloadPDFFile in goroutine w when the server answers every
\* request with 200 OK and every file operation succeeds
DownloadOk(w) == Stat(w) \/ GetOk(w) \/ Mkdir(w) \/ Create(w) \/ CopyChunk(w)

\* main from its first line to its last, with downloads that do not fail,
\* and the program started again
PipelineNext ==
  \/ CrawlNext
  \/ MakeChannel
  \/ main
  \/ \E w \in Workers : Receive(w) \/ WorkerExit(w) \/ DownloadOk(w)
  \/ Rerun

PipelineSpec == PipelineInit /\ [][PipelineNext]_vars

(* ============================ the properties =========================== *)
\* main has logged "All downloads completed successfully."
Done == mpc = "done"

\* the places of the channel that hold task t, and the workers that hold it
Queued(t) == {i \in 1..Len(urlChannel) : urlChannel[i] = t}

Holders(t) == {w \in Workers : wtask[w] = t}

\* C1: every enqueued task is taken from the channel by exactly one worker.
\* At every moment a task that was sent is either still in the channel, once,
\* or was taken once; a task is held by no more workers than took it; and at
\* completion each of the K tasks was taken exactly once, so K attempts were
\* made.
C1_ExactlyOneWorker ==
  /\ \A t \in Tasks :
       /\ picked[t] <= 1
       /\ Cardinality(Holders(t)) <= picked[t]
       /\ Cardinality(Queued(t)) + picked[t] = (IF t <= sent THEN 1 ELSE 0)
       /\ outcome[t] # "none" => picked[t] = 1 /\ Holders(t) = {}
  /\ Done => \A t \in Tasks : picked[t] = 1

\* the pool completed a batch that holds the same URL twice
C1_Witness ==
  /\ Done
  /\ Len(downloadURLs) >= 2
  /\ downloadURLs[1] = downloadURLs[2]
  /\ \A t \in Tasks : picked[t] = 1

\* C2: completion is signalled only when the channel is closed and empty,
\* every task was sent, every download attempt has returned and every worker
\* has left its loop.
C2_CompletionAfterAll ==
  Done =>
    /\ closed
    /\ urlChannel = <<>>
    /\ sent = Len(downloadURLs)
    /\ wg = 0
    /\ \A t \in Tasks : outcome[t] # "none"
    /\ \A w \in Workers : wpc[w] = "exited" /\ wtask[w] = 0

\* completion after a batch in which a file was downloaded
C2_Witness ==
  /\ Done
  /\ \E t \in Tasks : outcome[t] = "downloaded"
  /\ \A w \in Workers : wpc[w] = "exited"

\* C3: when every goroutine that can take a step is run, and every download
\* call returns, all workers exit and the dispatcher signals completion,
\* whatever K and W, K = 0 and W > K included.
C3_Terminates == <>(Done /\ \A w \in Workers : wpc[w] = "exited")

\* completion of a batch with fewer tasks than workers
C3_Witness ==
  /\ Done
  /\ Len(downloadURLs) > 0
  /\ Len(downloadURLs) < NumWorkers
  /\ \A w \in Workers : wpc[w] = "exited"

\* C4: an attempt that returns an error stops no worker. A worker leaves its
\* loop only on the closed, empty channel; a worker whose call failed and who
\* holds no task is back at the receive of its loop; and at completion every
\* task was attempted, whatever failed before.
C4_ErrorsStopNoWorker ==
  /\ \A w \in Workers :
       /\ wpc[w] = "exited" => closed /\ urlChannel = <<>>
       /\ (erred[w] /\ wtask[w] = 0) => wpc[w] \in {"recv", "exited"}
  /\ Done => \A t \in Tasks : picked[t] >= 1 /\ outcome[t] # "none"

\* a worker whose earlier call returned an error is fetching its next task
C4_Witness ==
  \E w \in Workers : erred[w] /\ wtask[w] # 0 /\ wpc[w] = "get"

\* the second of the two calls in sequence has returned
SecondReturned == calls = 2 /\ wpc[0] = "idle"

\* the calls that issued a fetch
Fetches == {t \in Tasks : resp[t] # 0}

\* C5 as the spec words it: two calls in sequence for the same URL make exactly
\* one fetch in total, and the second call leaves the files as the first
\* left them.
C5_OneFetchAlways ==
  SecondReturned => Cardinality(Fetches) = 1 /\ fs = snap

\* C5, amended: when the first call creates the destination file, the two
\* calls make exactly one fetch, the second call skips and leaves the files as
\* the first left them; when the first call skips, no fetch is made at all;
\* when the first call fails before it creates the file, the second call
\* fetches again.
C5_OneFetchOnceCreated ==
  SecondReturned =>
    /\ created[1] =>
         /\ Fetches = {1}
         /\ resp[1] = 200
         /\ outcome[2] = "skipped"
         /\ fs = snap
    /\ outcome[1] = "skipped" => Fetches = {} /\ outcome[2] = "skipped" /\ fs = snap
    /\ (~created[1] /\ outcome[1] # "skipped") => resp[2] # 0

\* the first call downloaded the file and the second one skipped
C5_Witness ==
  /\ SecondReturned
  /\ outcome[1] = "downloaded"
  /\ outcome[2] = "skipped"
  /\ fs = snap

\* the tasks whose file is p, and those of them that opened it for writing
TasksAt(p) == {t \in Tasks : PathOf(t) = p}

Writers(p) == {t \in TasksAt(p) : created[t]}

\* a batch in which distinct URLs derive the file name p, run to completion
\* with nothing at p beforehand and no failure of the network or the disk
Collided(p) ==
  /\ Done
  /\ \E t1, t2 \in TasksAt(p) : downloadURLs[t1] # downloadURLs[t2]
  /\ \E t \in TasksAt(p) : seen[t] = "none"
  /\ \A t \in TasksAt(p) : ~envfail[t]

C7_AtMostOneFetch ==
  \A t1, t2 \in Tasks :
    (t1 # t2 /\ downloadURLs[t1] = downloadURLs[t2] /\ ~envfail[t1] /\ ~envfail[t2])
      => ~(resp[t1] = 200 /\ resp[t2] = 200)

\* C8: downloadPDFFile skips, with no fetch, exactly when the existence test
\* finds a regular file; on nothing, a directory or another entry it goes on
\* to the fetch.
C8_SkipsOnRegularFileOnly ==
  \A t \in Tasks :
    seen[t] # "unseen" =>
      /\ outcome[t] = "skipped" <=> seen[t] = "file"
      /\ outcome[t] = "skipped" => resp[t] = 0

\* C9: every URL extractLinksFromHTML returns starts with "http" and holds
\* one of the two allow-listed substrings.
C9_OnlyAllowedURLs ==
  epc = "done" =>
    \A i \in 1..Len(urls) : HasPrefix(urls[i], Http) /\ isAllowed(urls[i])

\* what the rule of the spec gives for one piece of a hidden input's value
pieceYield(piece) ==
  IF HasPrefix(piece, Http)
  THEN IF isAllowed(piece) THEN <<piece>> ELSE <<>>
  ELSE IF (Contains(piece, DotTheWercs) \/ Contains(piece, DotBioRad))
            /\ isAllowed(Https \o piece)
       THEN <<Https \o piece>>
       ELSE <<>>

RECURSIVE piecesYield(_)
piecesYield(pieces) ==
  IF Len(pieces) = 0 THEN <<>> ELSE pieceYield(pieces[1]) \o piecesYield(Tail(pieces))

RECURSIVE valuesYield(_)
valuesYield(doc) ==
  IF Len(doc) = 0 THEN <<>>
  ELSE piecesYield(Split(doc[1].val, TildeHttps)) \o valuesYield(Tail(doc))

\* a document of hidden inputs that have a value
HiddenInputsOnly(doc) ==
  \A i \in 1..Len(doc) : doc[i].tag = "input" /\ doc[i].type = "hidden" /\ doc[i].has

\* C10: part_000 splits the value of a hidden input on "~https://" and every
\* piece gives at most one URL: the piece when it starts with "http", else
\* "https://" and the piece when it holds a recognized host, kept only when
\* allow-listed. The value of the scenario gives exactly its one URL.
C10_HiddenInputPieces ==
  (epc = "done" /\ variant = "part_000" /\ HiddenInputsOnly(htmlData)) =>
    /\ urls = valuesYield(htmlData)
    /\ htmlData = <<Element("input", "hidden", TRUE, ScenarioValue)>> => urls = <<ScenarioURL>>

\* the scenario's input was scanned and gave the one URL
C10_Witness ==
  /\ epc = "done"
  /\ variant = "part_000"
  /\ htmlData = <<Element("input", "hidden", TRUE, ScenarioValue)>>
  /\ urls = <<ScenarioURL>>

\* the reference derivation of the spec: a run of punctuation gives one
\* hyphen (at the place of its first character)
refHyphenate(seg) ==
  SelectSeq([i \in 1..Len(seg) |->
               IF IsAlnum(seg[i]) THEN seg[i]
               ELSE IF i > 1 /\ ~IsAlnum(seg[i - 1]) THEN "" ELSE "-"],
            LAMBDA t : t # "")

\* a hyphenated segment without the hyphen at its head and at its end
refTrim(h) ==
  SubSeq(h, IF Len(h) > 0 /\ h[1] = "-" THEN 2 ELSE 1,
            IF Len(h) > 1 /\ h[Len(h)] = "-" THEN Len(h) - 1 ELSE Len(h))

refClean(seg) == ToLower(refTrim(refHyphenate(seg)))

\* the segments the name is made of: those of prd when it is not empty, else
\* the last segment of the path without ".pdf"
refSegments(u, prd) ==
  IF prd # <<>> THEN Split(prd, <<"~", "~">>)
  ELSE <<TrimSuffix(PathBase(UrlPath(u)), DotPdf)>>

\* the cleaned segments that are not empty, joined with "-"
RECURSIVE refJoin(_)
refJoin(segs) ==
  IF Len(segs) = 0 THEN <<>>
  ELSE IF refClean(segs[1]) = <<>> THEN refJoin(Tail(segs))
  ELSE IF refJoin(Tail(segs)) = <<>> THEN refClean(segs[1])
  ELSE refClean(segs[1]) \o <<"-">> \o refJoin(Tail(segs))

refName(u) == refJoin(refSegments(u, QueryGet(u, <<"prd">>))) \o DotPdf

\* C11: for every URL that parses, createFileNameFromURL returns the name of
\* the reference derivation: the cleaned segments of prd, or the cleaned base
\* of the path, joined with "-" and followed by ".pdf".
C11_EqualsReference ==
  (npc = "done" /\ ~ParseFails(inputURL)) => fileName = refName(inputURL)

\* a token of lowercase letters and digits
IsLowerAlnum(t) == IsAlnum(t) /\ ToLowerTok(t) = t

\* C12: the derived name is the fixed fallback, or lowercase letters, digits
\* and hyphens followed by ".pdf"; it holds no path separator and no "..".
C12_FilesystemSafe ==
  npc = "done" =>
    \/ fileName = InvalidUrlPdf
    \/ /\ HasSuffix(fileName, DotPdf)
       /\ \A i \in 1..(Len(fileName) - Len(DotPdf)) :
            IsLowerAlnum(fileName[i]) \/ fileName[i] = "-"
       /\ ~Contains(fileName, <<"/">>)
       /\ ~Contains(fileName, <<".", ".">>)

\* C13: part_000 never derives a bare ".pdf": something precedes the
\* extension.
C13_NeverBarePdf ==
  (npc = "done" /\ variant = "part_000") => fileName # DotPdf

\* a file that is whole: the complete body of URL u, or the file of an
\* earlier run
FullyWritten(e, u) == e.kind = "file" /\ e.data \in {Body(u), OldData}

\* C14: whenever a download call of part_000 has returned, with or without an
\* error, its destination holds no file or a fully-written one, and a call that failed
\* is never followed by a call that skips because of what it left.
C14_NoPartialFile ==
  \A t \in Tasks :
    (variant = "part_000" /\ outcome[t] # "none" /\ wpc[0] = "idle") =>
      /\ fs[PathOf(t)].kind = "file" => FullyWritten(fs[PathOf(t)], downloadURLs[t])
      /\ (t > 1 /\ outcome[t] = "skipped") => outcome[t - 1] \in {"skipped", "downloaded"}

\* the render phase of main is over
PhaseOver == cpc \in {"read", "extract", "fatal"}

\* the pages [startPage, endPage) in ascending order
AllPages == [i \in 1..(endPage - startPage) |-> startPage + i - 1]

\* the pages whose markup was rendered and whose append returned an error
WriteFailed == {p \in PageNumbers : p < pageNumber /\ p \notin renderErr /\ p \notin written}

\* C15 as the spec words it: whatever renders and writes fail, the run goes on
\* to read the store and to extract; it never ends in the fatal exit.
C15_NeverFatal == cpc # "fatal"

\* C15, amended: a render error or a write error never ends the render loop,
\* every page is still attempted; the run goes on to read the store and to
\* extract whenever the store is a regular file after the loop, which it is
\* when it was one before or when one append opened it; when no page reached
\* the store (every render or every open failed) reading it back fails and the
\* run ends in the fatal exit before any extraction.
C15_FatalOnlyWithoutStore ==
  /\ (PhaseOver /\ ~fileExists(store0)) => rendered = AllPages
  /\ cpc = "fatal" =>
       /\ store.kind # "file"
       /\ store0.kind # "file"
       /\ written = {}
       /\ epc = "off"
  /\ (cpc \in {"extract", "fatal"} /\ (written # {} \/ store0.kind = "file")) =>
       cpc = "extract" /\ htmlData = store.data

\* a run with a failed render and a failed write went on to the extraction
C15_Witness ==
  /\ cpc = "extract"
  /\ epc = "done"
  /\ renderErr # {}
  /\ WriteFailed # {}

\* C16: when the store is a regular file at the start of the run, render is
\* never called and the store is not modified; when nothing is there, render
\* is called once for each page of [startPage, endPage), in ascending order.
C16_RenderAllOrNothing ==
  /\ store0.kind = "file" => rendered = <<>> /\ store = store0
  /\ store0.kind = "none" =>
       /\ Len(rendered) <= Len(AllPages)
       /\ rendered = SubSeq(AllPages, 1, Len(rendered))
       /\ PhaseOver => rendered = AllPages

\* a run that found no store has rendered every page, one of them in vain
C16_Witness ==
  /\ PhaseOver
  /\ store0.kind = "none"
  /\ rendered = AllPages
  /\ renderErr # {}

\* the part of the store that came from page p
Contribution(p) == SelectSeq(store.data, LAMBDA e : e.val = PageURL(p))

RECURSIVE ContributionsFrom(_)
ContributionsFrom(p) ==
  IF p >= endPage THEN <<>> ELSE Contribution(p) \o ContributionsFrom(p + 1)

\* the markup of the pages from p on whose append returned nil
RECURSIVE WrittenMarkupFrom(_)
WrittenMarkupFrom(p) ==
  IF p >= endPage THEN <<>>
  ELSE (IF p \in written THEN PageMarkup(p) ELSE <<>>) \o WrittenMarkupFrom(p + 1)

IsPrefix(a, b) == Len(a) <= Len(b) /\ SubSeq(b, 1, Len(a)) = a

\* C17 as the spec words it: after the render phase the store holds exactly
\* the markup of the pages whose render and write both succeeded.
C17_OnlyWrittenPages ==
  (PhaseOver /\ ~fileExists(store0)) => store.data = WrittenMarkupFrom(startPage)

\* the store holds the contributions of the pages in ascending order; a page
\* contributes its whole markup when its append returned nil, a proper prefix
\* of it (possibly nothing) when the append failed, nothing when its render
\* failed or it has not been reached
StoreIsConcatenation ==
  ~fileExists(store0) =>
    /\ store.data = ContributionsFrom(startPage)
    /\ \A p \in PageNumbers :
         /\ IsPrefix(Contribution(p), PageMarkup(p))
         /\ p \in written <=> Contribution(p) = PageMarkup(p)
         /\ (p \in renderErr \/ p >= pageNumber) => Contribution(p) = <<>>

\* C17, amended: the store is append-only, every step leaves its earlier
\* content as a prefix; it is the concatenation, in ascending page order, of
\* the whole markup of the pages that were written, and of a proper prefix of
\* the markup of each page whose write failed; a page whose render failed
\* contributes nothing.
C17_AppendOnly ==
  /\ []StoreIsConcatenation
  /\ [][IsPrefix(store.data, store'.data)]_vars

\* after the phase the store holds a whole page and a part of another page,
\* whose write failed, and a third page failed to render
C17_Witness ==
  /\ PhaseOver
  /\ written # {}
  /\ renderErr # {}
  /\ \E p \in WriteFailed : Contribution(p) # <<>>

\* the status codes of a successful response
Success2xx == 200..299

\* C18: a download call that got a response reports a status error exactly
\* when the status is not 2xx; a 2xx response goes on to be streamed.
C18_StatusErrorIffNot2xx ==
  \A t \in Tasks :
    resp[t] > 0 => (outcome[t] = "err_status" <=> resp[t] \notin Success2xx)

\* the URLs of the batch derive pairwise distinct file names
DistinctNames == \A t1, t2 \in Tasks : t1 # t2 => PathOf(t1) # PathOf(t2)

\* worker w has its destination open for writing: os.Create has returned
\* the file and downloadPDFFile has not returned
HasOpen(w) == wpc[w] = "copy"

\* what was at a path before the run, or the first chunks of the body of u
OwnContent(e, u) ==
  \/ e \in {InitialEntry(k) : k \in PoolKinds}
  \/ e.kind = "file" /\ IsPrefix(e.data, Body(u))

\* C19: when the file names of the batch are pairwise distinct, no two
\* workers have the same destination open for writing at the same time, no
\* destination ever holds a chunk of another URL, and the file of every
\* download that succeeded holds the body of exactly its own URL.
C19_NoSharedDestination ==
  DistinctNames =>
    /\ \A w1, w2 \in Workers :
         (w1 # w2 /\ HasOpen(w1) /\ HasOpen(w2)) => PathOf(wtask[w1]) # PathOf(wtask[w2])
    /\ \A t \in Tasks :
         /\ OwnContent(fs[PathOf(t)], downloadURLs[t])
         /\ outcome[t] = "downloaded" =>
              fs[PathOf(t)] = [kind |-> "file", data |-> Body(downloadURLs[t])]

\* two workers are writing at the same time, each its own file, after one
\* of them has written a first chunk
C19_Witness ==
  /\ DistinctNames
  /\ \E w1, w2 \in Workers : w1 # w2 /\ HasOpen(w1) /\ HasOpen(w2) /\ woff[w1] > 0

\* the channel holds the tasks in the order they were sent
ChannelInOrder ==
  \A i, j \in 1..Len(urlChannel) : i < j => urlChannel[i] < urlChannel[j]

\* a step in which worker w starts on a task: it runs no attempt, the task
\* is the oldest of the channel, every task sent before it was taken and has
\* returned or is with another worker, and no task sent after it was taken
StartsInOrder(w) ==
  (wtask'[w] # wtask[w] /\ wtask'[w] # 0) =>
    /\ wtask[w] = 0
    /\ urlChannel # <<>>
    /\ wtask'[w] = Head(urlChannel)
    /\ urlChannel' = Tail(urlChannel)
    /\ \A i \in 1..(wtask'[w] - 1) :
         /\ picked[i] = 1
         /\ outcome[i] # "none" \/ \E w2 \in Workers \ {w} : wtask[w2] = i
    /\ \A j \in (wtask'[w] + 1)..Len(downloadURLs) : picked[j] = 0

\* C20: tasks leave the channel in the order they were sent, and a worker
\* starts on a task only when its earlier attempt has returned: whatever it
\* handled before was sent before and has returned.
C20_FifoAndSequential ==
  /\ []ChannelInOrder
  /\ [][\A w \in Workers : StartsInOrder(w)]_vars

\* a worker whose first attempt failed is starting on the second task
C20_Witness ==
  \E w \in Workers : erred[w] /\ wtask[w] = 2 /\ wpc[w] = "stat" /\ outcome[1] # "none"

\* the dispatcher is in its send loop with a URL left to send
Sending == mpc = "send" /\ sent < Len(downloadURLs)

\* the dispatcher has sent every URL and is about to close the channel
Closing == mpc = "send" /\ sent = Len(downloadURLs)

\* the capacity of the channel is the number of tasks: no more tasks are
\* queued than were sent, nor than there are; a send the dispatcher is at
\* can happen and so can the close, whatever the workers did; once the
\* channel is closed every task was sent
QueueWithinCapacity ==
  /\ Len(urlChannel) <= sent
  /\ sent <= Len(downloadURLs)
  /\ Sending => ENABLED Send
  /\ Closing => ENABLED Close
  /\ closed => sent = Len(downloadURLs)

\* a step out of a state with the channel closed sends nothing
NothingSentAfterClose ==
  closed => (sent' = sent /\ Len(urlChannel') <= Len(urlChannel))

\* C21: the channel is made with the capacity K = len(downloadURLs), so the
\* number of queued tasks never exceeds K and no send of the dispatcher ever
\* blocks: it sends all K tasks and closes the channel without waiting for
\* a worker, and nothing is sent after the close.
C21_ProducerNeverBlocks ==
  /\ []QueueWithinCapacity
  /\ [][NothingSentAfterClose]_vars

\* the channel is closed and full, with every task of a batch of MaxTasks
\* still queued: no worker has received anything
C21_Witness ==
  /\ closed
  /\ Len(downloadURLs) = MaxTasks
  /\ Len(urlChannel) = Len(downloadURLs)
  /\ \A t \in Tasks : picked[t] = 0

\* the second run of the program is under way or over
SecondRun == run = 2

\* no download call of the run has reached http.Get
NoFetch == Fetches = {} /\ \A w \in Workers : wpc[w] # "get"

\* C22: after a run in which every download succeeded, a second run over
\* the same markup store and destination directory renders no page, fetches
\* nothing from the network and leaves the store and every file as the
\* first run left them.
C22_RerunIdempotent ==
  SecondRun =>
    /\ rendered = <<>>
    /\ NoFetch
    /\ store = store0
    /\ fs = fs0

\* the second run is over: the first run had rendered every page into a new
\* store and downloaded a document, and the second skipped every task
C22_Witness ==
  /\ SecondRun
  /\ mpc = "done"
  /\ store.data = ContributionsFrom(startPage)
  /\ Len(downloadURLs) = 2 * (endPage - startPage)
  /\ \A t \in Tasks : outcome[t] = "skipped"
  /\ \E t \in Tasks : fs[PathOf(t)].data = Body(downloadURLs[t])

====
